---- MODULE Spec2Model ----
(***************************************************************************)
(* Gitping backend: the webhook ingestion pipeline (routes/webhook.py),    *)
(* the event model (models/github_event.py) and the read API               *)
(* (routes/api.py), over a MongoDB collection reached through database.py. *)
(*                                                                         *)
(* JSON values are tagged records.  A Python str is the sequence of its    *)
(* characters, so that str.replace and str() act on what they act on in    *)
(* the code.  A timestamp is a reading of the clock: utcnow().isoformat()  *)
(* strings order as the instants they denote.                              *)
(***************************************************************************)
EXTENDS Integers, Sequences, FiniteSets, TLC

VARIABLES store, nextId, clock, dbUp, req, resp, threads, fnIn, fnOut, fnPc

apiVars == <<store, nextId, clock, dbUp, req, resp, threads>>
fnVars == <<fnIn, fnOut, fnPc>>
vars == <<store, nextId, clock, dbUp, req, resp, threads, fnIn, fnOut, fnPc>>

(***************************************************************************)
(* Bounds of the model.                                                    *)
(***************************************************************************)
\* requests that arrive
MaxRequests == 2
\* requests that arrive, GET /events run on its own
MaxArrivals == 3
\* POST /events/sample in progress at a time
MaxSamples == 1
\* readings of the clock
MaxClock == 2
\* length of a commits list of a push payload
MaxCommits == 2
\* pieces a ref of a push payload is put together from
MaxRefPieces == 2

(***************************************************************************)
(* JSON values and Python values.                                          *)
(***************************************************************************)
JNull == [t |-> "null"]
JBool(b) == [t |-> "bool", b |-> b]
JNum(n) == [t |-> "num", n |-> n]
JStr(s) == [t |-> "str", s |-> s]
JList(l) == [t |-> "list", l |-> l]
JObj(f) == [t |-> "obj", f |-> f]
EmptyObj == JObj(<<>>)
\* an exception in flight: what an expression that raises evaluates to
Raised == [t |-> "raise"]

\* string literals of the code, as character sequences
sEmpty == <<>>
sRefsHeads == <<"r", "e", "f", "s", "/", "h", "e", "a", "d", "s", "/">>
sUnknown == <<"U", "n", "k", "n", "o", "w", "n">>
sPUSH == <<"P", "U", "S", "H">>
sPULL_REQUEST == <<"P", "U", "L", "L", "_", "R", "E", "Q", "U", "E", "S", "T">>
sMERGE == <<"M", "E", "R", "G", "E">>
sOpened == <<"o", "p", "e", "n", "e", "d">>
sClosed == <<"c", "l", "o", "s", "e", "d">>
sMain == <<"m", "a", "i", "n">>
sNone == <<"N", "o", "n", "e">>
sTrue == <<"T", "r", "u", "e">>
sFalse == <<"F", "a", "l", "s", "e">>

\* bool(v) of Python
Truthy(v) ==
    CASE v.t = "null" -> FALSE
      [] v.t = "bool" -> v.b
      [] v.t = "num" -> v.n # 0
      [] v.t = "str" -> v.s # <<>>
      [] v.t = "list" -> v.l # <<>>
      [] v.t = "obj" -> DOMAIN v.f # {}
      [] OTHER -> TRUE

\* o.get(k, d): only a dict has get; anything else raises AttributeError
PyGet(o, k, d) ==
    IF o.t = "obj"
    THEN IF k \in DOMAIN o.f THEN o.f[k] ELSE d
    ELSE Raised

\* the decimal digits of a natural number
RECURSIVE Digits(_)
Digits(n) ==
    LET d == <<"0", "1", "2", "3", "4", "5", "6", "7", "8", "9">>[(n % 10) + 1]
    IN IF n < 10 THEN <<d>> ELSE Digits(n \div 10) \o <<d>>

\* str(v) of a scalar (the identifiers of the payloads are scalars); an
\* exception in flight stays in flight
PyStr(v) ==
    CASE v.t = "str" -> v
      [] v.t = "num" -> JStr(IF v.n < 0 THEN <<"-">> \o Digits(-v.n) ELSE Digits(v.n))
      [] v.t = "null" -> JStr(sNone)
      [] v.t = "bool" -> JStr(IF v.b THEN sTrue ELSE sFalse)
      [] v.t = "raise" -> Raised

\* s.replace(old, ''): every non-overlapping occurrence, scanning from the left
RECURSIVE ReplaceAll(_, _)
ReplaceAll(s, old) ==
    IF Len(s) < Len(old) THEN s
    ELSE IF SubSeq(s, 1, Len(old)) = old
         THEN ReplaceAll(SubSeq(s, Len(old) + 1, Len(s)), old)
         ELSE <<Head(s)>> \o ReplaceAll(Tail(s), old)

\* v.replace(old, new) with new = '': only a str has replace
PyReplace(v, old) ==
    IF v.t = "str" THEN JStr(ReplaceAll(v.s, old)) ELSE Raised

(***************************************************************************)
(* models/github_event.py                                                  *)
(***************************************************************************)
VALID_ACTIONS == {JStr(sPUSH), JStr(sPULL_REQUEST), JStr(sMERGE)}

\* no timestamp given (None, or an empty string)
NoTimestamp == 0

\* GitHubEvent.__init__ without the check of the action
GitHubEvent_unvalidated(request_id, author, action, to_branch, from_branch, timestamp, now) ==
    [t |-> "event",
     request_id |-> request_id,
     author |-> author,
     action |-> action,
     from_branch |-> from_branch,
     to_branch |-> to_branch,
     timestamp |-> IF timestamp # NoTimestamp THEN timestamp ELSE now]

\* GitHubEvent.__init__; now is the reading of utcnow()
GitHubEvent(request_id, author, action, to_branch, from_branch, timestamp, now) ==
    IF action \notin VALID_ACTIONS
    THEN Raised
    ELSE [t |-> "event",
          request_id |-> request_id,
          author |-> author,
          action |-> action,
          from_branch |-> from_branch,
          to_branch |-> to_branch,
          timestamp |-> IF timestamp # NoTimestamp THEN timestamp ELSE now]

\* GitHubEvent.to_dict
to_dict(e) ==
    [request_id |-> e.request_id,
     author |-> e.author,
     action |-> e.action,
     from_branch |-> e.from_branch,
     to_branch |-> e.to_branch,
     timestamp |-> e.timestamp]

\* GitHubEvent.from_dict: data["k"] raises KeyError on a missing key,
\* data.get("k") gives None
from_dict(data, now) ==
    IF {"request_id", "author", "action", "to_branch"} \subseteq DOMAIN data
    THEN GitHubEvent(data.request_id, data.author, data.action, data.to_branch,
                     IF "from_branch" \in DOMAIN data THEN data.from_branch ELSE JNull,
                     IF "timestamp" \in DOMAIN data THEN data.timestamp ELSE NoTimestamp,
                     now)
    ELSE Raised

(***************************************************************************)
(* routes/webhook.py: the parsers.  An exception inside a parser is caught *)
(* there and the parser returns None.                                      *)
(***************************************************************************)
\* try: return v / except Exception: return None
OrNone(v) == IF v = Raised THEN JNull ELSE v

\* commits[-1]: the last element of a list, the last character of a str;
\* a dict (KeyError), a number or a bool (TypeError) raise
LastOf(commits) ==
    CASE commits.t = "list" -> commits.l[Len(commits.l)]
      [] commits.t = "str" -> JStr(<<commits.s[Len(commits.s)]>>)
      [] OTHER -> Raised

parse_push_event(payload, now) ==
    LET commits == PyGet(payload, "commits", JList(<<>>)) IN
    IF commits = Raised THEN JNull
    ELSE IF ~Truthy(commits) THEN JNull
    ELSE
      LET latest_commit == LastOf(commits)
          request_id == PyGet(latest_commit, "id", JStr(sEmpty))
          author == PyGet(PyGet(payload, "pusher", EmptyObj), "name", JStr(sUnknown))
          to_branch == PyReplace(PyGet(payload, "ref", JStr(sEmpty)), sRefsHeads)
      IN IF Raised \in {request_id, author, to_branch}
         THEN JNull
         ELSE OrNone(GitHubEvent(request_id, author, JStr(sPUSH), to_branch,
                                 JNull, NoTimestamp, now))

parse_pull_request_event(payload, now) ==
    LET pull_request == PyGet(payload, "pull_request", EmptyObj)
        request_id == PyStr(PyGet(pull_request, "id", JStr(sEmpty)))
        author == PyGet(PyGet(pull_request, "user", EmptyObj), "login", JStr(sUnknown))
        to_branch == PyGet(PyGet(pull_request, "base", EmptyObj), "ref", JStr(sEmpty))
        from_branch == PyGet(PyGet(pull_request, "head", EmptyObj), "ref", JStr(sEmpty))
    IN IF Raised \in {request_id, author, to_branch, from_branch}
       THEN JNull
       ELSE OrNone(GitHubEvent(request_id, author, JStr(sPULL_REQUEST), to_branch,
                               from_branch, NoTimestamp, now))

parse_merge_event(payload, now) ==
    LET pull_request == PyGet(payload, "pull_request", EmptyObj)
        merged == PyGet(pull_request, "merged", JBool(FALSE))
        request_id == PyStr(PyGet(pull_request, "id", JStr(sEmpty)))
        author == PyGet(PyGet(pull_request, "merged_by", EmptyObj), "login", JStr(sUnknown))
        to_branch == PyGet(PyGet(pull_request, "base", EmptyObj), "ref", JStr(sEmpty))
        from_branch == PyGet(PyGet(pull_request, "head", EmptyObj), "ref", JStr(sEmpty))
    IN IF merged = Raised THEN JNull
       ELSE IF ~Truthy(merged) THEN JNull
       ELSE IF Raised \in {request_id, author, to_branch, from_branch}
            THEN JNull
            ELSE OrNone(GitHubEvent(request_id, author, JStr(sMERGE), to_branch,
                                    from_branch, NoTimestamp, now))

(***************************************************************************)
(* database.py and the store operations of models/github_event.py.  The    *)
(* collection is a set of documents, each with the _id the insert gave it. *)
(* up: the Database object holds a database handle (_db is not None).      *)
(* connects is what the environment gives a connect(): that it gets as far *)
(* as assigning _db (MONGODB_URI is set and MongoClient(uri) builds a      *)
(* client).  A store operation is given collection, that its               *)
(* get_collection() gave a collection and not None, and ok, that its call  *)
(* to the server does not raise; s and n are the collection and the next   *)
(* identifier of the server when the call is applied.                      *)
(***************************************************************************)
\* Database.connect, lines 24-35: _db once the client is built, or left as it
\* is when connect() returns or raises before
connect(up, connects) == IF connects THEN TRUE ELSE up

\* Database.get_database, line 47: connect() is called when no handle is held
NoHandle(up) == ~up

\* Database.get_database, line 49: the handle it returns is the one held now
get_database(up) == up

\* Database.get_collection: a collection of the handle get_database gave,
\* None without one
get_collection(db) == db

\* Database.close_connection: the client is closed and the handle dropped
close_connection(up) == FALSE

\* str(ObjectId): the identifier as text
IdStr(n) == JStr(Digits(n))

\* the document insert_one stores for the dict d
Doc(d, n) ==
    [_id |-> n,
     request_id |-> d.request_id,
     author |-> d.author,
     action |-> d.action,
     from_branch |-> d.from_branch,
     to_branch |-> d.to_branch,
     timestamp |-> d.timestamp]

\* save that returns an identifier whether or not the insert went through
save_unchecked(e, s, n, collection, ok) ==
    IF collection /\ ok
    THEN [store |-> s \cup {Doc(to_dict(e), n)}, next |-> n + 1, id |-> IdStr(n)]
    ELSE [store |-> s, next |-> n, id |-> IdStr(n)]

\* save that keeps one record for each request_id
save_dedup(e, s, n, collection, ok) ==
    IF collection /\ ok
    THEN IF \E d \in s : d.request_id = e.request_id
         THEN [store |-> s, next |-> n,
               id |-> IdStr((CHOOSE d \in s : d.request_id = e.request_id)._id)]
         ELSE [store |-> s \cup {Doc(to_dict(e), n)}, next |-> n + 1, id |-> IdStr(n)]
    ELSE [store |-> s, next |-> n, id |-> JNull]

\* GitHubEvent.save: the collection afterwards, the next identifier, and the
\* value returned
save(e, s, n, collection, ok) ==
    IF collection /\ ok
    THEN [store |-> s \cup {Doc(to_dict(e), n)}, next |-> n + 1, id |-> IdStr(n)]
    ELSE [store |-> s, next |-> n, id |-> JNull]

\* delete_all_events that deletes nothing
delete_all_events_none(s, collection, ok) ==
    [store |-> s, count |-> 0]

\* GitHubEvent.delete_all_events
delete_all_events(s, collection, ok) ==
    IF collection /\ ok
    THEN [store |-> {}, count |-> Cardinality(s)]
    ELSE [store |-> s, count |-> 0]

\* every order of the documents of s
RECURSIVE Perms(_)
Perms(s) ==
    IF s = {} THEN {<<>>}
    ELSE UNION {{<<d>> \o p : p \in Perms(s \ {d})} : d \in s}

\* find().sort("timestamp", -1): descending by timestamp, documents of equal
\* timestamp in any order
SortedDesc(s) ==
    {q \in Perms(s) : \A i \in 1..(Len(q) - 1) : q[i].timestamp >= q[i + 1].timestamp}

\* cursor.limit(n): 0 is no limit, a negative n is a limit of -n
Limited(q, n) ==
    LET k == IF n < 0 THEN -n ELSE n
    IN IF n = 0 \/ k >= Len(q) THEN q ELSE SubSeq(q, 1, k)

\* doc["_id"] = str(doc["_id"])
WithStrId(d) == [d EXCEPT !._id = IdStr(d._id)]

\* GitHubEvent.get_latest_events: the lists it can return
get_latest_events(s, limit, collection, ok) ==
    IF collection /\ ok
    THEN {[i \in 1..Len(Limited(q, limit)) |-> WithStrId(Limited(q, limit)[i])] :
            q \in SortedDesc(s)}
    ELSE {<<>>}

\* the number a string of decimal digits writes
RECURSIVE Number(_)
Number(s) ==
    IF s = <<>> THEN 0
    ELSE 10 * Number(SubSeq(s, 1, Len(s) - 1))
           + (CHOOSE k \in 0..9 : Digits(k) = <<s[Len(s)]>>)

\* ObjectId(event_id): the identifier the text denotes, or InvalidId raised
\* (0) for a text that is no identifier
ObjectId(event_id) ==
    IF /\ event_id.t = "str"
       /\ event_id.s # <<>>
       /\ \A i \in 1..Len(event_id.s) : \E k \in 0..9 : Digits(k) = <<event_id.s[i]>>
       /\ event_id.s[1] # "0"
    THEN Number(event_id.s)
    ELSE 0

\* GitHubEvent.get_event_by_id
get_event_by_id(s, event_id, collection, ok) ==
    IF collection /\ ObjectId(event_id) # 0 /\ ok
          /\ \E d \in s : d._id = ObjectId(event_id)
    THEN WithStrId(CHOOSE d \in s : d._id = ObjectId(event_id))
    ELSE JNull

(***************************************************************************)
(* The requests.  A body is a JSON value, or absent: NoBodyJson is an      *)
(* empty body sent as application/json, NoBodyOther a request that is not  *)
(* JSON at all.                                                            *)
(***************************************************************************)
NoBodyJson == [t |-> "absent", json |-> TRUE]
NoBodyOther == [t |-> "absent", json |-> FALSE]

\* request.get_json(): the value parsed.  An empty body sent as JSON does
\* not parse and Flask raises BadRequest; for a request that is not JSON,
\* Flask before 2.1 returns None and Flask from 2.1 on raises (400 or 415).
get_json(body) ==
    IF body.t = "absent"
    THEN IF body.json THEN {Raised} ELSE {JNull, Raised}
    ELSE {body}

Response(code, body) == [code |-> code, body |-> body]
InternalError == Response(500, [error |-> "Internal server error"])

(***************************************************************************)
(* routes/webhook.py: the handlers.  Each gives the collection afterwards, *)
(* the next identifier of the server and the response.                     *)
(***************************************************************************)
\* github_webhook, lines 79-86: the parser chosen and what it returns; an
\* exception raised here, outside the parsers, is in flight
Route(event_type, payload, now) ==
    IF event_type = "push" THEN parse_push_event(payload, now)
    ELSE IF event_type = "pull_request"
    THEN LET action == PyGet(payload, "action", JNull) IN
         IF action = Raised THEN Raised
         ELSE IF action = JStr(sOpened) THEN parse_pull_request_event(payload, now)
         ELSE IF action = JStr(sClosed)
         THEN LET merged == PyGet(PyGet(payload, "pull_request", EmptyObj),
                                  "merged", JBool(FALSE))
              IN IF merged = Raised THEN Raised
                 ELSE IF Truthy(merged) THEN parse_merge_event(payload, now)
                 ELSE JNull
         ELSE JNull
    ELSE JNull

\* github_webhook, lines 88-103: the event is saved, or the request ignored
Persist(github_event, event_type, s, n, collection, ok) ==
    IF Truthy(github_event)
    THEN LET r == save(github_event, s, n, collection, ok) IN
         IF Truthy(r.id)
         THEN [store |-> r.store, next |-> r.next,
               resp |-> Response(200, [status |-> "success",
                                       message |-> "Event processed successfully",
                                       event_id |-> r.id])]
         ELSE [store |-> r.store, next |-> r.next,
               resp |-> Response(500, [error |-> "Failed to save event"])]
    ELSE [store |-> s, next |-> n,
          resp |-> Response(200, [status |-> "ignored", event_type |-> event_type])]

\* github_webhook; payload is what get_json gave
github_webhook(event_type, payload, s, n, now, collection, ok) ==
    IF payload = Raised
    THEN [store |-> s, next |-> n, resp |-> InternalError]
    ELSE IF ~Truthy(payload)
    THEN [store |-> s, next |-> n,
          resp |-> Response(400, [error |-> "No payload received"])]
    ELSE LET github_event == Route(event_type, payload, now) IN
         IF github_event = Raised
         THEN [store |-> s, next |-> n, resp |-> InternalError]
         ELSE Persist(github_event, event_type, s, n, collection, ok)

sTest123 == <<"t", "e", "s", "t", "-", "1", "2", "3">>
sTestUser == <<"t", "e", "s", "t", "-", "u", "s", "e", "r">>

\* test_webhook: the event built from data, or the exception raised by
\* data.get on what is no dict or by the constructor
test_event(data, now) ==
    IF data.t # "obj" THEN Raised
    ELSE GitHubEvent(PyGet(data, "request_id", JStr(sTest123)),
                     PyGet(data, "author", JStr(sTestUser)),
                     PyGet(data, "action", JStr(sPUSH)),
                     PyGet(data, "to_branch", JStr(sMain)),
                     PyGet(data, "from_branch", JNull),
                     NoTimestamp, now)

\* test_webhook; data is what get_json gave
test_webhook(data, s, n, now, collection, ok) ==
    IF test_event(data, now) = Raised
    THEN [store |-> s, next |-> n, resp |-> InternalError]
    ELSE LET r == save(test_event(data, now), s, n, collection, ok) IN
         IF Truthy(r.id)
         THEN [store |-> r.store, next |-> r.next,
               resp |-> Response(200, [status |-> "success",
                                       message |-> "Test event created successfully",
                                       event_id |-> r.id])]
         ELSE [store |-> r.store, next |-> r.next,
               resp |-> Response(500, [error |-> "Failed to save test event"])]

(***************************************************************************)
(* routes/api.py.  The rendered formatted_timestamp and message of an      *)
(* event are left out of the responses.                                    *)
(***************************************************************************)
DefaultLimit == 50
HardCap == 100

\* request.args.get('limit', 50, type=int): the default when no integer is given
LimitArg(arg) == IF arg.t = "num" THEN arg.n ELSE DefaultLimit

\* limit = min(limit, 100)
CapLimit(limit) == IF limit < HardCap THEN limit ELSE HardCap

\* the event as the responses show it
Formatted(event) ==
    [id |-> event._id,
     request_id |-> event.request_id,
     author |-> event.author,
     action |-> event.action,
     from_branch |-> event.from_branch,
     to_branch |-> event.to_branch,
     timestamp |-> event.timestamp]

\* get_events; events is what get_latest_events gave
get_events(events) ==
    LET formatted_events == [i \in 1..Len(events) |-> Formatted(events[i])]
    IN Response(200, [status |-> "success",
                      count |-> Len(formatted_events),
                      events |-> formatted_events])

\* get_event
get_event(event_id, s, collection, ok) ==
    LET event == get_event_by_id(s, event_id, collection, ok) IN
    IF event = JNull
    THEN Response(404, [error |-> "Event not found"])
    ELSE Response(200, [status |-> "success", event |-> Formatted(event)])

\* health_check
health_check(now) ==
    Response(200, [status |-> "healthy", service |-> "Git Ping API", timestamp |-> now])

sAbc123 == <<"a", "b", "c", "1", "2", "3">>
sJohnDoe == <<"j", "o", "h", "n", "_", "d", "o", "e">>
sDef456 == <<"d", "e", "f", "4", "5", "6">>
sJaneSmith == <<"j", "a", "n", "e", "_", "s", "m", "i", "t", "h">>
sGhi789 == <<"g", "h", "i", "7", "8", "9">>
sBobWilson == <<"b", "o", "b", "_", "w", "i", "l", "s", "o", "n">>
sFeatureBranch == <<"f", "e", "a", "t", "u", "r", "e", "-", "b", "r", "a", "n", "c", "h">>
sDevelop == <<"d", "e", "v", "e", "l", "o", "p">>

\* the list sample_events of GitHubEvent.create_sample_events, built at the
\* clock readings ts[1], ts[2], ts[3]
sample_events(ts) ==
    <<GitHubEvent(JStr(sAbc123), JStr(sJohnDoe), JStr(sPUSH), JStr(sMain),
                  JNull, NoTimestamp, ts[1]),
      GitHubEvent(JStr(sDef456), JStr(sJaneSmith), JStr(sPULL_REQUEST), JStr(sMain),
                  JStr(sFeatureBranch), NoTimestamp, ts[2]),
      GitHubEvent(JStr(sGhi789), JStr(sBobWilson), JStr(sMERGE), JStr(sMain),
                  JStr(sDevelop), NoTimestamp, ts[3])>>

\* GitHubEvent.create_sample_events, one turn of its loop: event is saved and
\* the identifier, when there is one, joins inserted_ids
save_sample(event, inserted_ids, s, n, collection, ok) ==
    LET r == save(event, s, n, collection, ok) IN
    [store |-> r.store, next |-> r.next,
     inserted_ids |-> IF Truthy(r.id) THEN Append(inserted_ids, r.id) ELSE inserted_ids]

\* create_sample_events of routes/api.py: the response for the identifiers
\* GitHubEvent.create_sample_events returned
create_sample_events(event_ids) ==
    Response(200, [status |-> "success",
                   created |-> Len(event_ids),
                   event_ids |-> event_ids])

(***************************************************************************)
(* The inputs the requests are drawn from.                                 *)
(***************************************************************************)
sAlice == <<"a", "l", "i", "c", "e">>
sBob == <<"b", "o", "b">>
sCarol == <<"c", "a", "r", "o", "l">>
sFeat == <<"f", "e", "a", "t">>
sReopened == <<"r", "e", "o", "p", "e", "n", "e", "d">>
sDELETE == <<"D", "E", "L", "E", "T", "E">>

PushGood ==
    JObj([commits |-> JList(<<JObj([id |-> JStr(<<"a">>)]), JObj([id |-> JStr(<<"b">>)])>>),
          ref |-> JStr(sRefsHeads \o sMain),
          pusher |-> JObj([name |-> JStr(sAlice)])])
PushNoCommits ==
    JObj([commits |-> JList(<<>>),
          ref |-> JStr(sRefsHeads \o sMain),
          pusher |-> JObj([name |-> JStr(sAlice)])])
PushPusherNull ==
    JObj([commits |-> JList(<<JObj([id |-> JStr(<<"a">>)])>>),
          ref |-> JStr(sRefsHeads \o sMain),
          pusher |-> JNull])

PullRequest(merged, merged_by) ==
    JObj([id |-> JNum(7),
          user |-> JObj([login |-> JStr(sBob)]),
          base |-> JObj([ref |-> JStr(sMain)]),
          head |-> JObj([ref |-> JStr(sFeat)]),
          merged |-> merged,
          merged_by |-> merged_by])
PullRequestBaseNull ==
    JObj([id |-> JNum(7),
          user |-> JObj([login |-> JStr(sBob)]),
          base |-> JNull,
          head |-> JObj([ref |-> JStr(sFeat)]),
          merged |-> JBool(TRUE),
          merged_by |-> JObj([login |-> JStr(sCarol)])])
PrBody(action, pull_request) == JObj([action |-> action, pull_request |-> pull_request])

PrBodies ==
    {PrBody(JStr(sOpened), PullRequest(JBool(FALSE), JNull)),
     PrBody(JStr(sOpened), JNull),
     PrBody(JStr(sClosed), PullRequest(JBool(FALSE), JNull)),
     PrBody(JStr(sClosed), PullRequest(JBool(TRUE), JObj([login |-> JStr(sCarol)]))),
     PrBody(JStr(sClosed), PullRequest(JBool(TRUE), JNull)),
     PrBody(JStr(sClosed), PullRequestBaseNull),
     PrBody(JStr(sClosed), JNull),
     PrBody(JStr(sReopened), PullRequest(JBool(FALSE), JNull))}

\* the bodies of POST /webhook
WebhookBodies ==
    {NoBodyJson, NoBodyOther, JNull, EmptyObj, JList(<<JNum(1)>>),
     PushGood, PushNoCommits, PushPusherNull} \cup PrBodies

\* the requests POST /webhook is drawn from: every body as a push and as a
\* pull_request, and some as an event of another type
WebhookRequests ==
    ({"push", "pull_request"} \X WebhookBodies)
      \cup ({"issues"} \X {NoBodyJson, EmptyObj, PushGood,
                           PrBody(JStr(sOpened), PullRequest(JBool(FALSE), JNull))})

\* the requests of POST /webhook the API is run with among its other
\* requests: one for each outcome of the dispatcher
SomeWebhookRequests ==
    {<<"push", PushGood>>,
     <<"push", PushNoCommits>>,
     <<"push", NoBodyJson>>,
     <<"pull_request", PrBody(JStr(sClosed), PullRequest(JBool(TRUE), JNull))>>,
     <<"pull_request", JList(<<JNum(1)>>)>>,
     <<"issues", EmptyObj>>}

\* the bodies of POST /webhook/test
TestBodies ==
    {NoBodyJson, JNull,
     JObj([action |-> JStr(sMERGE), from_branch |-> JStr(sFeat)]),
     JObj([action |-> JStr(sDELETE)]),
     JObj([action |-> JNum(1), author |-> JStr(sAlice)])}

\* the limit argument of GET /events: none, or an integer
LimitArgs == {JNull} \cup {JNum(k) : k \in {-1, 0, 1, 101}}

\* the limit arguments the API is run with among its other requests
SomeLimitArgs == {JNull, JNum(-1)}

\* the identifiers asked of GET /events/<event_id> when the server has given
\* those below n: each of them, the next one, and a text that is none
EventIds(n) == {IdStr(k) : k \in 1..n} \cup {JStr(<<"x">>)}

Clocks(from) == from..MaxClock

\* the call of a request that makes none
NoCall == [connects |-> FALSE, ok |-> FALSE]

(***************************************************************************)
(* The API as a state machine.  store is the collection, nextId the next   *)
(* identifier the server gives, clock the last reading of the clock, dbUp  *)
(* whether the Database object holds a handle.  The server of main.py      *)
(* handles each request on a thread of its own, and a thread is overtaken  *)
(* wherever it waits: in connect(), before _db is assigned and in the ping *)
(* after, and in each call to the server.  threads[i] is the thread of the *)
(* i-th request: what the handler has read of the environment so far       *)
(* (payload, the reading of the clock its event is built at), connects,    *)
(* that its connect() assigned a handle, collection, that get_collection() *)
(* gave it a collection, and pc, where it waits: "connect" before _db is   *)
(* assigned, "ping" after, "call" in its call to the server; or Done.  The *)
(* step a request arrives in runs its handler up to its first wait; a      *)
(* later step ends the wait and runs the handler on, to the response or to *)
(* the next wait.  The step a handler returns in leaves in req the request *)
(* with what it read of the environment and, of its call, whether its own  *)
(* connect() assigned a handle (connects) and whether the call reached the *)
(* server and did not raise (ok), and in resp the response; Respond sends  *)
(* the response.  The thread of a POST /events/sample keeps the calls it   *)
(* has made and alone: no other thread has written to the store since its  *)
(* delete.  MaxRequests requests arrive (MaxArrivals when GET /events is   *)
(* run on its own), and at most MaxSamples POST /events/sample are in      *)
(* progress at a time.                                                     *)
(***************************************************************************)
NoRequest == [op |-> "none"]
NoResponse == Response(0, <<>>)
Done == [op |-> "done", pc |-> "done"]

ApiInit ==
    /\ store = {}
    /\ nextId = 1
    /\ clock = 1
    /\ dbUp \in BOOLEAN
    /\ req = NoRequest
    /\ resp = NoResponse
    /\ threads = <<>>

FnIdle ==
    /\ fnIn = <<>>
    /\ fnOut = <<>>
    /\ fnPc = "idle"

Init == ApiInit /\ FnIdle

\* a request can arrive
CanArrive == Len(threads) < MaxRequests
CanArriveAlone == Len(threads) < MaxArrivals

\* the thread t as it enters get_collection(): without a handle it is about
\* to connect(); with one it has the collection and goes on to its call
Enter(t, up) ==
    IF NoHandle(up)
    THEN [t EXCEPT !.pc = "connect", !.connects = FALSE, !.collection = FALSE]
    ELSE [t EXCEPT !.pc = "call", !.connects = FALSE,
                   !.collection = get_collection(get_database(up))]

\* the threads once the thread i has taken a step that wrote to the store or
\* did not: a POST /events/sample past its delete is no longer alone
Written(ths, i, wrote) ==
    [j \in 1..Len(ths) |->
       IF j # i /\ wrote /\ ths[j].op = "sample" /\ ths[j].calls # <<>>
       THEN [ths[j] EXCEPT !.alone = FALSE]
       ELSE ths[j]]

\* connect() of a thread that found no handle: _db is assigned and the
\* thread waits in the ping, or connect() returns before and get_database
\* returns the handle held by then
Connect ==
    /\ req = NoRequest
    /\ \E i \in 1..Len(threads) :
         /\ threads[i].pc = "connect"
         /\ \E connects \in BOOLEAN :
              /\ dbUp' = connect(dbUp, connects)
              /\ threads' = [threads EXCEPT ![i] =
                               IF connects
                               THEN [threads[i] EXCEPT !.pc = "ping", !.connects = TRUE]
                               ELSE [threads[i] EXCEPT
                                       !.pc = "call",
                                       !.collection = get_collection(get_database(dbUp))]]
              /\ UNCHANGED <<store, nextId, clock, req, resp, fnVars>>

\* the ping of a connect() is over: connect() returns, and get_database
\* returns the handle held by then
Connected ==
    /\ req = NoRequest
    /\ \E i \in 1..Len(threads) :
         /\ threads[i].pc = "ping"
         /\ threads' = [threads EXCEPT ![i] =
                          [threads[i] EXCEPT
                             !.pc = "call",
                             !.collection = get_collection(get_database(dbUp))]]
         /\ UNCHANGED <<store, nextId, clock, dbUp, req, resp, fnVars>>

\* what the environment gives the call of the thread t: without a collection
\* none is made
Oks(t) == IF t.collection THEN BOOLEAN ELSE {FALSE}

\* whether the handler gets as far as save()
WebhookSaves(event_type, payload, now) ==
    /\ payload # Raised
    /\ Truthy(payload)
    /\ Route(event_type, payload, now) \notin {Raised, JNull}

\* the request of the thread t of POST /webhook, its call made or not
WebhookRequest(t, ok) ==
    [op |-> "webhook", event_type |-> t.event_type, body |-> t.body,
     payload |-> t.payload, now |-> t.now,
     call |-> [connects |-> t.connects, ok |-> ok]]

\* github_webhook up to get_collection() of save(), for the request rq: the
\* payload is read and the event built at a reading of the clock
Webhook(rq) ==
    /\ LET event_type == rq[1]
           body == rq[2]
       IN
         \E payload \in get_json(body) :
           \E now \in IF WebhookSaves(event_type, payload, clock) THEN Clocks(clock) ELSE {clock} :
             LET t == [op |-> "webhook", pc |-> "start", connects |-> FALSE,
                       collection |-> FALSE, event_type |-> event_type, body |-> body,
                       payload |-> payload, now |-> now]
                 r == github_webhook(event_type, payload, store, nextId, now, FALSE, FALSE)
             IN
             /\ clock' = now
             /\ IF WebhookSaves(event_type, payload, clock)
                THEN /\ threads' = Append(threads, Enter(t, dbUp))
                     /\ UNCHANGED <<req, resp>>
                ELSE /\ threads' = Append(threads, Done)
                     /\ req' = WebhookRequest(t, FALSE)
                     /\ resp' = r.resp
             /\ UNCHANGED <<store, nextId, dbUp, fnVars>>

PostWebhook ==
    /\ req = NoRequest
    /\ CanArrive
    /\ \E rq \in SomeWebhookRequests : Webhook(rq)

\* github_webhook from the call of save() on: the insert_one of a waiting
\* thread is applied, or save() has no collection, and the handler returns
WebhookSave ==
    /\ req = NoRequest
    /\ \E i \in 1..Len(threads) :
         /\ threads[i].op = "webhook"
         /\ threads[i].pc = "call"
         /\ \E ok \in Oks(threads[i]) :
              LET t == threads[i]
                  r == github_webhook(t.event_type, t.payload, store, nextId, t.now,
                                      t.collection, ok)
              IN
              /\ store' = r.store
              /\ nextId' = r.next
              /\ req' = WebhookRequest(t, ok)
              /\ resp' = r.resp
              /\ threads' = Written([threads EXCEPT ![i] = Done], i, r.store # store)
              /\ UNCHANGED <<clock, dbUp, fnVars>>

\* whether the handler gets as far as save()
TestSaves(data) == test_event(data, clock) # Raised

\* the request of the thread t of POST /webhook/test, its call made or not
TestRequest(t, ok) ==
    [op |-> "test", body |-> t.body, data |-> t.data, now |-> t.now,
     call |-> [connects |-> t.connects, ok |-> ok]]

\* test_webhook up to get_collection() of save(), for the request with this
\* body: the event is built at a reading of the clock
WebhookTest(body) ==
    /\ \E data \in get_json(body) :
         \E now \in IF TestSaves(data) THEN Clocks(clock) ELSE {clock} :
           LET t == [op |-> "test", pc |-> "start", connects |-> FALSE,
                     collection |-> FALSE, body |-> body, data |-> data, now |-> now]
               r == test_webhook(data, store, nextId, now, FALSE, FALSE)
           IN
           /\ clock' = now
           /\ IF TestSaves(data)
              THEN /\ threads' = Append(threads, Enter(t, dbUp))
                   /\ UNCHANGED <<req, resp>>
              ELSE /\ threads' = Append(threads, Done)
                   /\ req' = TestRequest(t, FALSE)
                   /\ resp' = r.resp
           /\ UNCHANGED <<store, nextId, dbUp, fnVars>>

PostWebhookTest ==
    /\ req = NoRequest
    /\ CanArrive
    /\ \E body \in TestBodies : WebhookTest(body)

\* test_webhook from the call of save() on
TestSave ==
    /\ req = NoRequest
    /\ \E i \in 1..Len(threads) :
         /\ threads[i].op = "test"
         /\ threads[i].pc = "call"
         /\ \E ok \in Oks(threads[i]) :
              LET t == threads[i]
                  r == test_webhook(t.data, store, nextId, t.now, t.collection, ok)
              IN
              /\ store' = r.store
              /\ nextId' = r.next
              /\ req' = TestRequest(t, ok)
              /\ resp' = r.resp
              /\ threads' = Written([threads EXCEPT ![i] = Done], i, r.store # store)
              /\ UNCHANGED <<clock, dbUp, fnVars>>

\* the request of the thread t of GET /events, its call made or not
EventsRequest(t, ok) ==
    [op |-> "events", arg |-> t.arg, limit |-> t.limit,
     call |-> [connects |-> t.connects, ok |-> ok]]

\* get_events up to get_collection() of get_latest_events, for the limit
\* argument arg
Events(arg) ==
    /\ LET t == [op |-> "events", pc |-> "start", connects |-> FALSE,
                 collection |-> FALSE, arg |-> arg, limit |-> CapLimit(LimitArg(arg))]
       IN threads' = Append(threads, Enter(t, dbUp))
    /\ UNCHANGED <<store, nextId, clock, dbUp, req, resp, fnVars>>

GetEvents ==
    /\ req = NoRequest
    /\ CanArrive
    /\ \E arg \in SomeLimitArgs : Events(arg)

\* get_events from the find of get_latest_events on
EventsFind ==
    /\ req = NoRequest
    /\ \E i \in 1..Len(threads) :
         /\ threads[i].op = "events"
         /\ threads[i].pc = "call"
         /\ \E ok \in Oks(threads[i]) :
              \E events \in get_latest_events(store, threads[i].limit,
                                              threads[i].collection, ok) :
                /\ req' = EventsRequest(threads[i], ok)
                /\ resp' = get_events(events)
                /\ threads' = [threads EXCEPT ![i] = Done]
                /\ UNCHANGED <<store, nextId, clock, dbUp, fnVars>>

\* the request of the thread t of GET /events/<event_id>, its call made or
\* not
EventRequest(t, ok) ==
    [op |-> "event", event_id |-> t.event_id,
     call |-> [connects |-> t.connects, ok |-> ok]]

\* get_event up to get_collection() of get_event_by_id
GetEvent ==
    /\ req = NoRequest
    /\ CanArrive
    /\ \E event_id \in EventIds(nextId) :
         LET t == [op |-> "event", pc |-> "start", connects |-> FALSE,
                   collection |-> FALSE, event_id |-> event_id]
         IN threads' = Append(threads, Enter(t, dbUp))
    /\ UNCHANGED <<store, nextId, clock, dbUp, req, resp, fnVars>>

\* get_event from the find_one of get_event_by_id on; ObjectId(event_id)
\* raises before the call
EventFind ==
    /\ req = NoRequest
    /\ \E i \in 1..Len(threads) :
         /\ threads[i].op = "event"
         /\ threads[i].pc = "call"
         /\ \E ok \in IF ObjectId(threads[i].event_id) # 0 THEN Oks(threads[i]) ELSE {FALSE} :
              /\ req' = EventRequest(threads[i], ok)
              /\ resp' = get_event(threads[i].event_id, store, threads[i].collection, ok)
              /\ threads' = [threads EXCEPT ![i] = Done]
              /\ UNCHANGED <<store, nextId, clock, dbUp, fnVars>>

\* POST /events/sample up to get_collection() of delete_all_events
PostEventsSample ==
    /\ req = NoRequest
    /\ CanArrive
    /\ Cardinality({i \in 1..Len(threads) : threads[i].op = "sample"}) < MaxSamples
    /\ LET t == [op |-> "sample", pc |-> "start", connects |-> FALSE,
                 collection |-> FALSE, sample_events |-> <<>>, inserted_ids |-> <<>>,
                 calls |-> <<>>, alone |-> TRUE]
       IN threads' = Append(threads, Enter(t, dbUp))
    /\ UNCHANGED <<store, nextId, clock, dbUp, req, resp, fnVars>>

\* POST /events/sample: the delete_many of a waiting thread is applied, or
\* delete_all_events has no collection
SampleDelete ==
    /\ req = NoRequest
    /\ \E i \in 1..Len(threads) :
         /\ threads[i].op = "sample"
         /\ threads[i].pc = "call"
         /\ threads[i].calls = <<>>
         /\ \E ok \in Oks(threads[i]) :
              LET t == threads[i]
                  r == delete_all_events(store, t.collection, ok)
              IN
              /\ store' = r.store
              /\ threads' = Written([threads EXCEPT ![i] =
                                       [t EXCEPT !.pc = "build",
                                                 !.calls = <<[connects |-> t.connects,
                                                              ok |-> ok]>>]],
                                    i, r.store # store)
              /\ UNCHANGED <<nextId, clock, dbUp, req, resp, fnVars>>

\* POST /events/sample: delete_all_events has returned;
\* create_sample_events builds its three events, each at a reading of the
\* clock, up to get_collection() of the first save()
SampleBuild ==
    /\ req = NoRequest
    /\ \E i \in 1..Len(threads) :
         /\ threads[i].op = "sample"
         /\ threads[i].pc = "build"
         /\ \E t1 \in Clocks(clock) :
              \E t2 \in Clocks(t1) :
                \E t3 \in Clocks(t2) :
                  /\ clock' = t3
                  /\ threads' = [threads EXCEPT ![i] =
                                   Enter([threads[i] EXCEPT
                                            !.sample_events = sample_events(<<t1, t2, t3>>)],
                                         dbUp)]
                  /\ UNCHANGED <<store, nextId, dbUp, req, resp, fnVars>>

\* POST /events/sample, the loop of create_sample_events from the call of
\* save() on: the insert_one of a waiting thread is applied, or save() has
\* no collection; after the last event the handler returns
SampleSave ==
    /\ req = NoRequest
    /\ \E i \in 1..Len(threads) :
         /\ threads[i].op = "sample"
         /\ threads[i].pc = "call"
         /\ threads[i].calls # <<>>
         /\ \E ok \in Oks(threads[i]) :
              LET t == threads[i]
                  r == save_sample(t.sample_events[Len(t.calls)], t.inserted_ids,
                                   store, nextId, t.collection, ok)
                  calls == Append(t.calls, [connects |-> t.connects, ok |-> ok])
              IN
              /\ store' = r.store
              /\ nextId' = r.next
              /\ IF Len(t.calls) < Len(t.sample_events)
                 THEN /\ threads' = Written([threads EXCEPT ![i] =
                                               [t EXCEPT !.pc = "loop",
                                                         !.inserted_ids = r.inserted_ids,
                                                         !.calls = calls]],
                                            i, r.store # store)
                      /\ UNCHANGED <<req, resp>>
                 ELSE /\ threads' = Written([threads EXCEPT ![i] = Done], i,
                                            r.store # store)
                      /\ req' = [op |-> "sample", calls |-> calls, alone |-> t.alone]
                      /\ resp' = create_sample_events(r.inserted_ids)
              /\ UNCHANGED <<clock, dbUp, fnVars>>

\* POST /events/sample, the loop of create_sample_events: the next turn, up
\* to get_collection() of its save()
SampleLoop ==
    /\ req = NoRequest
    /\ \E i \in 1..Len(threads) :
         /\ threads[i].op = "sample"
         /\ threads[i].pc = "loop"
         /\ threads' = [threads EXCEPT ![i] = Enter(threads[i], dbUp)]
         /\ UNCHANGED <<store, nextId, clock, dbUp, req, resp, fnVars>>

GetHealth ==
    /\ req = NoRequest
    /\ CanArrive
    /\ \E now \in Clocks(clock) :
         /\ clock' = now
         /\ req' = [op |-> "health"]
         /\ resp' = health_check(now)
         /\ threads' = Append(threads, Done)
         /\ UNCHANGED <<store, nextId, dbUp, fnVars>>

\* db.close_connection()
CloseConnection ==
    /\ req = NoRequest
    /\ dbUp
    /\ dbUp' = close_connection(dbUp)
    /\ UNCHANGED <<store, nextId, clock, req, resp, threads, fnVars>>

Respond ==
    /\ req # NoRequest
    /\ req' = NoRequest
    /\ resp' = NoResponse
    /\ UNCHANGED <<store, nextId, clock, dbUp, threads, fnVars>>

Next ==
    \/ PostWebhook
    \/ WebhookSave
    \/ PostWebhookTest
    \/ TestSave
    \/ GetEvents
    \/ EventsFind
    \/ GetEvent
    \/ EventFind
    \/ PostEventsSample
    \/ SampleDelete
    \/ SampleBuild
    \/ SampleSave
    \/ SampleLoop
    \/ GetHealth
    \/ Connect
    \/ Connected
    \/ CloseConnection
    \/ Respond

Spec == Init /\ [][Next]_vars

(***************************************************************************)
(* POST /webhook on its own, over every request of WebhookRequests.        *)
(***************************************************************************)
PostWebhookAny ==
    /\ req = NoRequest
    /\ CanArrive
    /\ \E rq \in WebhookRequests : Webhook(rq)

WebhookNext ==
    \/ PostWebhookAny
    \/ WebhookSave
    \/ Connect
    \/ Connected
    \/ CloseConnection
    \/ Respond

SpecWebhook == Init /\ [][WebhookNext]_vars

(***************************************************************************)
(* GET /events on its own, over every limit of LimitArgs, the store filled *)
(* by POST /webhook/test.                                                  *)
(***************************************************************************)
GetEventsAny ==
    /\ req = NoRequest
    /\ CanArriveAlone
    /\ \E arg \in LimitArgs : Events(arg)

\* the bodies of POST /webhook/test that fill the store
EventBodies ==
    {JObj([action |-> JStr(sMERGE), from_branch |-> JStr(sFeat)]),
     JObj([action |-> JStr(sPUSH), author |-> JStr(sAlice)])}

PostWebhookTestAny ==
    /\ req = NoRequest
    /\ CanArriveAlone
    /\ \E body \in EventBodies : WebhookTest(body)

EventsNext ==
    \/ PostWebhookTestAny
    \/ TestSave
    \/ GetEventsAny
    \/ EventsFind
    \/ Connect
    \/ Connected
    \/ Respond

SpecEvents == Init /\ [][EventsNext]_vars

(***************************************************************************)
(* parse_push_event on its own, over push payloads: fnIn is the payload,   *)
(* fnOut what the parser returns.                                          *)
(***************************************************************************)
Absent == [t |-> "absent"]

\* the dict of the keys given a value
MkObj(f) == JObj([k \in {x \in DOMAIN f : f[x] # Absent} |-> f[k]])

RefPieces ==
    {sRefsHeads, <<"m">>, <<"r", "e", "f", "s", "/">>, <<"h", "e", "a", "d", "s", "/">>}

RECURSIVE RefsOf(_)
RefsOf(k) ==
    IF k = 0 THEN {<<>>}
    ELSE RefsOf(k - 1) \cup {r \o q : r \in RefsOf(k - 1), q \in RefPieces}

RefValues == {JStr(r) : r \in RefsOf(MaxRefPieces)} \cup {JNull, Absent}

CommitValues ==
    {JObj([id |-> JStr(<<"a">>)]), JObj([id |-> JStr(<<"b">>)]), EmptyObj, JNull}

RECURSIVE ListsOf(_, _)
ListsOf(vals, k) ==
    IF k = 0 THEN {<<>>}
    ELSE ListsOf(vals, k - 1) \cup {Append(l, v) : l \in ListsOf(vals, k - 1), v \in vals}

CommitsValues ==
    {JList(l) : l \in ListsOf(CommitValues, MaxCommits)}
      \cup {JNull, JStr(<<"a", "b">>), JObj([id |-> JStr(<<"a">>)]), Absent}

PusherValues == {JObj([name |-> JStr(sAlice)]), EmptyObj, JNull, JStr(sAlice), Absent}

PushPayloads ==
    {MkObj([commits |-> c, ref |-> r, pusher |-> u]) :
       c \in CommitsValues, r \in RefValues, u \in PusherValues}
      \cup {JList(<<JNum(1)>>)}

ApiIdle ==
    /\ store = {}
    /\ nextId = 1
    /\ clock = 1
    /\ dbUp = FALSE
    /\ req = NoRequest
    /\ resp = NoResponse
    /\ threads = <<>>

PushInit ==
    /\ ApiIdle
    /\ fnIn \in PushPayloads
    /\ fnOut = JNull
    /\ fnPc = "call"

PushCall ==
    /\ fnPc = "call"
    /\ fnOut' = parse_push_event(fnIn, clock)
    /\ fnPc' = "done"
    /\ UNCHANGED <<fnIn, apiVars>>

PushNext == PushCall

SpecPush == PushInit /\ [][PushNext]_vars

(***************************************************************************)
(* to_dict and from_dict on their own: fnIn is an event and the identifier *)
(* the store gives it (0: the event is not stored), fnOut the storage form *)
(* and the event rebuilt from it.                                          *)
(***************************************************************************)
RtEvents ==
    {GitHubEvent(r, a, act, tb, fb, ts, 1) :
       r \in {JStr(sAbc123), JStr(<<"7">>)},
       a \in {JStr(sAlice), JStr(sUnknown)},
       act \in VALID_ACTIONS,
       tb \in {JStr(sMain), JStr(sEmpty)},
       fb \in {JNull, JStr(sFeat)},
       ts \in 0..MaxClock}

RtInit ==
    /\ ApiIdle
    /\ fnIn \in [e : RtEvents, id : 0..MaxRequests]
    /\ fnOut = <<>>
    /\ fnPc = "start"

\* the storage form: to_dict(e), and as get_latest_events gives it back once
\* stored
RtToDict ==
    /\ fnPc = "start"
    /\ fnOut' = [data |-> IF fnIn.id = 0 THEN to_dict(fnIn.e)
                          ELSE WithStrId(Doc(to_dict(fnIn.e), fnIn.id))]
    /\ fnPc' = "stored"
    /\ UNCHANGED <<fnIn, apiVars>>

\* from_dict, at a later reading of the clock
RtFromDict ==
    /\ fnPc = "stored"
    /\ fnOut' = [data |-> fnOut.data, back |-> from_dict(fnOut.data, MaxClock + 1)]
    /\ fnPc' = "done"
    /\ UNCHANGED <<fnIn, apiVars>>

RtNext == RtToDict \/ RtFromDict

SpecRoundTrip == RtInit /\ [][RtNext]_vars

(***************************************************************************)
(* The properties.  In the step a handler returns in, req' is the request, *)
(* resp' the response, store the collection before and store' after; the   *)
(* call of the request went through when req'.call.ok.                     *)
(***************************************************************************)
IsIgnored(r) == r.code = 200 /\ "status" \in DOMAIN r.body /\ r.body.status = "ignored"
IsSuccess(r) == r.code = 200 /\ "status" \in DOMAIN r.body /\ r.body.status = "success"
IsFailedSave(r) == r.code = 500 /\ r.body = [error |-> "Failed to save event"]

\* o[k] of a dict that has the key, None otherwise
Field(o, k) == IF o.t = "obj" /\ k \in DOMAIN o.f THEN o.f[k] ELSE JNull

\* get_json gave a non-empty payload
NonEmptyPayload(r) == r.op = "webhook" /\ r.payload # Raised /\ Truthy(r.payload)

\* the three rows of the routing table that choose a parser
Selected(event_type, payload) ==
    \/ event_type = "push"
    \/ event_type = "pull_request" /\ Field(payload, "action") = JStr(sOpened)
    \/ /\ event_type = "pull_request"
       /\ Field(payload, "action") = JStr(sClosed)
       /\ Truthy(Field(Field(payload, "pull_request"), "merged"))

\* C1: for a POST /webhook with a non-empty payload an event is persisted
\* only on a row of the routing table (push; pull_request opened;
\* pull_request closed and merged), and on any other combination the request
\* is ignored with a 200 and the store is left as it was.
C1_RoutingTable ==
    [][NonEmptyPayload(req') =>
         /\ store' # store => Selected(req'.event_type, req'.payload)
         /\ ~Selected(req'.event_type, req'.payload) =>
              IsIgnored(resp') /\ store' = store]_vars

\* C2: when the parser chosen for a POST /webhook yields an event, an insert
\* that goes through gives the success response with the identifier the
\* store assigned and exactly that event is added to the store; an insert
\* that fails gives the 500 "Failed to save event", which is not the ignored
\* response, and leaves the store as it was.  A parser that yields no event
\* gives the ignored response.
C2_PersistOutcome ==
    [][NonEmptyPayload(req') /\ Route(req'.event_type, req'.payload, req'.now) # Raised =>
         LET e == Route(req'.event_type, req'.payload, req'.now) IN
         IF e = JNull
         THEN IsIgnored(resp') /\ ~IsFailedSave(resp') /\ store' = store
         ELSE IF req'.call.ok
         THEN /\ IsSuccess(resp')
              /\ resp'.body.event_id = IdStr(nextId)
              /\ \E d \in store' :
                   /\ store' = store \cup {d}
                   /\ d \notin store
                   /\ d._id = nextId
                   /\ \A k \in {"request_id", "author", "action", "from_branch",
                                "to_branch", "timestamp"} : d[k] = e[k]
         ELSE /\ IsFailedSave(resp')
              /\ ~IsIgnored(resp')
              /\ store' = store]_vars

\* C2, witness: a POST /webhook whose parser yielded an event and whose
\* insert raised, on a handle its own connect() left, the store holding
\* events
C2_Witness ==
    /\ NonEmptyPayload(req)
    /\ Route(req.event_type, req.payload, req.now) \notin {Raised, JNull}
    /\ dbUp /\ req.call.connects /\ ~req.call.ok
    /\ IsFailedSave(resp)
    /\ store # {}

\* the body of the request is empty or missing
EmptyOrMissing(body) == body.t = "absent" \/ body \in {JNull, EmptyObj}

\* C3: a POST /webhook whose body is empty or missing is answered with the
\* 400 rejection, whatever the discriminator, and nothing is persisted.
C3_EmptyBodyRejected ==
    [][req'.op = "webhook" /\ EmptyOrMissing(req'.body) =>
         resp'.code = 400 /\ store' = store]_vars

\* a nested object the parser of this request reads is there and is no object
BadNested(o, keys) == \E k \in keys : k \in DOMAIN o.f /\ o.f[k].t # "obj"

Malformed(event_type, payload) ==
    \/ payload.t # "obj"
    \/ event_type = "push" /\ BadNested(payload, {"pusher"})
    \/ /\ event_type = "pull_request"
       /\ \/ BadNested(payload, {"pull_request"})
          \/ /\ Field(payload, "action") = JStr(sOpened)
             /\ BadNested(Field(payload, "pull_request"), {"user", "base", "head"})
          \/ /\ Field(payload, "action") = JStr(sClosed)
             /\ BadNested(Field(payload, "pull_request"), {"merged_by", "base", "head"})

\* C4: a POST /webhook with a non-empty payload of malformed shape and the
\* discriminator push or pull_request is ignored and nothing is persisted;
\* it never gives a 500.
C4_MalformedIgnored ==
    [][/\ NonEmptyPayload(req')
       /\ req'.event_type \in {"push", "pull_request"}
       /\ Malformed(req'.event_type, req'.payload)
       => IsIgnored(resp') /\ store' = store]_vars

\* C5: every record of the store has an action of PUSH, PULL_REQUEST, MERGE;
\* a POST /webhook/test with one of these actions builds the event and, the
\* insert going through, persists it, and with any other action it persists
\* nothing and answers with an error.
C5_ValidActions ==
    /\ [](\A d \in store : d.action \in {JStr(sPUSH), JStr(sPULL_REQUEST), JStr(sMERGE)})
    /\ [][req'.op = "test" /\ req'.data.t = "obj" =>
            LET action == IF "action" \in DOMAIN req'.data.f
                          THEN req'.data.f.action ELSE JStr(sPUSH)
            IN IF action \in {JStr(sPUSH), JStr(sPULL_REQUEST), JStr(sMERGE)}
               THEN req'.call.ok =>
                      /\ IsSuccess(resp')
                      /\ \E d \in store' \ store : d.action = action
               ELSE resp'.code = 500 /\ store' = store]_vars

\* C5, witness: a POST /webhook/test with the action DELETE was answered,
\* the store holding events
C5_Witness ==
    /\ req.op = "test"
    /\ req.data.t = "obj"
    /\ Field(req.data, "action") = JStr(sDELETE)
    /\ resp.code = 500
    /\ store # {}

Min(a, b) == IF a < b THEN a ELSE b
Max(a, b) == IF a > b THEN a ELSE b

\* C6: the limit GET /events passes to the store is within [0, 100], and the
\* response lists at most min(max(limit, 0), 100) events, in descending
\* order of timestamp, count being their number; 50 is the limit when none
\* is given.
C6_LimitClamped ==
    req.op = "events" =>
      LET limit == IF req.arg.t = "num" THEN req.arg.n ELSE 50
          events == resp.body.events
      IN /\ req.limit >= 0 /\ req.limit <= 100
         /\ req.limit = Min(Max(limit, 0), 100)
         /\ Len(events) <= Min(Max(limit, 0), 100)
         /\ resp.body.count = Len(events)
         /\ \A i \in 1..(Len(events) - 1) : events[i].timestamp >= events[i + 1].timestamp

\* the event has v as its identifier
HasId(e, v) ==
    \/ "id" \in DOMAIN e /\ e.id = v
    \/ "_id" \in DOMAIN e /\ e._id = v

\* C7: from_dict(to_dict(e)) equals e on request_id, author, action,
\* from_branch, to_branch and timestamp, and carries the id of the storage
\* form when that has one.
C7_RoundTrip ==
    fnPc = "done" =>
      /\ fnOut.back # Raised
      /\ \A k \in {"request_id", "author", "action", "from_branch", "to_branch",
                   "timestamp"} : fnOut.back[k] = fnIn.e[k]
      /\ "_id" \in DOMAIN fnOut.data => HasId(fnOut.back, fnOut.data._id)

\* ref without a leading refs/heads/
StripPrefix(ref) ==
    IF Len(ref) >= Len(sRefsHeads) /\ SubSeq(ref, 1, Len(sRefsHeads)) = sRefsHeads
    THEN SubSeq(ref, Len(sRefsHeads) + 1, Len(ref))
    ELSE ref

\* a push payload of the shape GitHub sends: commits a list of objects, ref
\* a string, pusher an object when it is there
PushShaped(payload) ==
    /\ payload.t = "obj"
    /\ "commits" \in DOMAIN payload.f
    /\ payload.f.commits.t = "list"
    /\ \A i \in 1..Len(payload.f.commits.l) : payload.f.commits.l[i].t = "obj"
    /\ "ref" \in DOMAIN payload.f /\ payload.f.ref.t = "str"
    /\ "pusher" \in DOMAIN payload.f => payload.f.pusher.t = "obj"

\* C8: the push parser yields no event for an empty commits list, and
\* otherwise a PUSH event with no from_branch, the id of the last commit as
\* request_id, pusher.name ("Unknown" when absent) as author, and ref
\* without a leading refs/heads/ as to_branch, any later refs/heads/ kept.
C8_PushParser ==
    fnPc = "done" /\ PushShaped(fnIn) =>
      LET commits == fnIn.f.commits.l IN
      IF commits = <<>> THEN fnOut = JNull
      ELSE /\ fnOut.t = "event"
           /\ fnOut.action = JStr(sPUSH)
           /\ fnOut.from_branch = JNull
           /\ fnOut.request_id = Field(commits[Len(commits)], "id")
                \/ ("id" \notin DOMAIN commits[Len(commits)].f /\ fnOut.request_id = JStr(<<>>))
           /\ fnOut.author = (IF Field(Field(fnIn, "pusher"), "name") # JNull
                              THEN fnIn.f.pusher.f.name ELSE JStr(sUnknown))
           /\ fnOut.to_branch = JStr(StripPrefix(fnIn.f.ref.s))

\* C9: a POST /webhook that parses to an event, the store being available,
\* adds exactly one record under an identifier no record had before; no
\* other POST /webhook changes the store; so the identifiers of the store
\* are distinct and two webhooks with one request_id leave two records.
C9_NoDeduplication ==
    /\ [](\A d1, d2 \in store : d1._id = d2._id => d1 = d2)
    /\ [](\A d \in store : d._id < nextId)
    /\ [][req'.op = "webhook" =>
            IF /\ WebhookSaves(req'.event_type, req'.payload, req'.now)
               /\ req'.call.ok
            THEN /\ Cardinality(store') = Cardinality(store) + 1
                 /\ store \subseteq store'
                 /\ \A d \in store' \ store :
                      /\ d._id >= nextId
                      /\ resp'.body.event_id = IdStr(d._id)
                 /\ IsSuccess(resp')
            ELSE store' = store /\ ~IsSuccess(resp')]_vars

\* C9, witness: a POST /webhook was persisted beside a record of the same
\* request_id
C9_Witness ==
    /\ req.op = "webhook"
    /\ IsSuccess(resp)
    /\ \E d1, d2 \in store :
         /\ d1._id # d2._id
         /\ d1.request_id = d2.request_id
         /\ resp.body.event_id = IdStr(d2._id)

\* the three canned events, whatever their timestamps and identifiers
IsSample(d, request_id, author, action, from_branch) ==
    /\ d.request_id = JStr(request_id)
    /\ d.author = JStr(author)
    /\ d.action = JStr(action)
    /\ d.from_branch = from_branch
    /\ d.to_branch = JStr(sMain)

\* the calls of a POST /events/sample all reached the server and none raised
AllThrough(r) == \A i \in 1..Len(r.calls) : r.calls[i].ok

\* the store holds exactly the three canned events and the response gives
\* their three identifiers
ThreeSamples(s, r) ==
    /\ Cardinality(s) = 3
    /\ \E d \in s : IsSample(d, sAbc123, sJohnDoe, sPUSH, JNull)
    /\ \E d \in s : IsSample(d, sDef456, sJaneSmith, sPULL_REQUEST, JStr(sFeatureBranch))
    /\ \E d \in s : IsSample(d, sGhi789, sBobWilson, sMERGE, JStr(sDevelop))
    /\ IsSuccess(r)
    /\ Len(r.body.event_ids) = 3
    /\ {r.body.event_ids[i] : i \in 1..3} = {IdStr(d._id) : d \in s}

\* a stored event is never modified, and events are removed only all at
\* once and only by the delete of a POST /events/sample
Frame ==
    /\ \A d \in store, d2 \in store' : d2._id = d._id => d2 = d
    /\ \/ store \subseteq store'
       \/ /\ store' = {}
          /\ \E i \in 1..Len(threads) :
               /\ threads[i].op = "sample"
               /\ threads[i].pc = "call"
               /\ threads[i].calls = <<>>
               /\ threads'[i].pc = "build"

\* C10 as stated: a stored event is never modified; events are removed only
\* all at once and only by POST /events/sample; after a POST /events/sample
\* whose calls to the store all go through, the store holds exactly the
\* three canned events and the response gives their three identifiers.
C10_FrameAndSample ==
    [][/\ Frame
       /\ req'.op = "sample" /\ AllThrough(req') => ThreeSamples(store', resp')]_vars

\* C10, amended: a stored event is never modified; events are removed only
\* all at once and only by POST /events/sample; after a POST /events/sample
\* whose calls to the store all go through and during which no other
\* request writes to the store, the store holds exactly the three canned
\* events and the response gives their three identifiers.
C10_SampleAlone ==
    [][/\ Frame
       /\ req'.op = "sample" /\ AllThrough(req') /\ req'.alone =>
            ThreeSamples(store', resp')]_vars

\* C10, witness: a POST /events/sample that no request overtook went
\* through after an identifier had been given to an earlier event
C10_Witness ==
    /\ req.op = "sample"
    /\ AllThrough(req) /\ req.alone
    /\ ThreeSamples(store, resp)
    /\ \A d \in store : d._id > 1

====
